---- MODULE Spec2Model ----
(***************************************************************************)
(* Model of the self-healing compiler pipeline: the job controller         *)
(* RunCompilationJob with its prompt builder and abort policy.             *)
(*                                                                         *)
(* Strings are modelled by the data the controller looks at: a text by its *)
(* byte length, an extracted code by the iteration whose model response it *)
(* was extracted from (<<>> is the empty string), a *CompilationResult by  *)
(* a record that carries the iteration that produced it (the pointer's     *)
(* identity), its Success flag, its ErrorType and the byte length of       *)
(* strings.Join(CompileErrors, "; "). An entry of Metrics.LLMResponseTimes *)
(* is modelled by the iteration of the call it was measured for.           *)
(*                                                                         *)
(* The model client, the extractor and the compile backend are called      *)
(* through their interfaces; what they return is an input of the step.     *)
(***************************************************************************)
EXTENDS Integers, Sequences, FiniteSets, TLC

\* ---------------------------------------------------------------- bounds
\* largest iteration cap a job is submitted with
MaxCap == 4
\* largest elapsed time (in units of the job's clock) the model follows
MaxElapsed == 2

\* most pieces of tool output in a text handed to the classifier
MaxFrags == 2
\* most lines in a diagnostic list handed to the classifier
MaxDiag == 1
\* latest value of the clock read by time.Now().UnixNano()
MaxStamp == 2
\* most pieces in a model response handed to the extractor
MaxParts == 3

\* ------------------------------------------------------------- constants
MaxPromptSize == 51200
SameErrorThreshold == 3
TruncateLen == 500

ErrorTypeUnknown == "unknown"
ErrorTypeInfrastructure == "infrastructure"
ErrorTypeSyntax == "syntax"
ErrorTypeType == "type"
ErrorTypeLogic == "logic"
ErrorTypeRuntime == "runtime"
ErrorTypeSuccess == "success"

ErrorType ==
    { ErrorTypeUnknown, ErrorTypeInfrastructure, ErrorTypeSyntax, ErrorTypeType,
      ErrorTypeLogic, ErrorTypeRuntime, ErrorTypeSuccess }

\* len(e.String())
KindLen(e) ==
    CASE e = ErrorTypeInfrastructure -> 14
      [] e = ErrorTypeSyntax -> 6
      [] e = ErrorTypeType -> 4
      [] e = ErrorTypeLogic -> 5
      [] e = ErrorTypeRuntime -> 7
      [] e = ErrorTypeSuccess -> 7
      [] OTHER -> 7

\* languages a job is submitted with; "rust" has no backend and no format text
Languages == { "go", "python", "cpp", "rust" }

\* byte length of the format instructions buildPrompt adds for a language
FormatLen(lang) ==
    CASE lang = "go" -> 314
      [] lang = "python" -> 258
      [] lang = "cpp" -> 291
      [] OTHER -> 0

\* byte lengths of the task text a job is submitted with
UserPromptLens == { 100, MaxPromptSize - 314, MaxPromptSize }

\* wall-clock budgets a job is submitted with, in units of the job's clock
Timeouts == { MaxElapsed }

VARIABLES
    MaxIterations, Timeout, Language, UserPrompt,
    Status, AbortReason, FinalResult,
    IterationCount, PromptSizes, LLMResponseTimes, LastErrorType, SameErrorCount,
    PromptHistory, ErrorHistory, LastErrorMessage,
    pc, iteration, prompt, mainCode, testCode, result,
    ctxDone, elapsed, panicking,
    events, calls

jobIn == << MaxIterations, Timeout, Language, UserPrompt >>
jobOut == << Status, AbortReason, FinalResult >>
metrics == << IterationCount, PromptSizes, LLMResponseTimes, LastErrorType, SameErrorCount >>
llmCtx == << PromptHistory, ErrorHistory, LastErrorMessage >>
locals == << iteration, prompt, mainCode, testCode, result >>
env == << ctxDone, elapsed >>

\* the state of the functions checked on their own: cls for classifyGoError,
\* gc for the calls of GoCompilerV2.Compile and the directories they work in,
\* ext for a call of Extractor.ExtractWithFallback
VARIABLES cls, gc, ext

aux == << cls, gc, ext >>

jobVars == << jobIn, jobOut, metrics, llmCtx, pc, locals, env, panicking, events, calls >>

vars == << jobIn, jobOut, metrics, llmCtx, pc, locals, env, panicking, events, calls, aux >>

\* cls while no classification is under way
ClsIdle ==
    [ phase |-> "idle", choice |-> << >>, output |-> << >>,
      compileErrors |-> << >>, testErrors |-> << >>, kind |-> "" ]

\* the clock values time.Now().UnixNano() can return
Stamps == 1 .. MaxStamp

\* a directory of os.TempDir() that does not exist; main and test name the call
\* that wrote main.go and main_test.go last (0: no such file)
NoDir == [ exists |-> FALSE, main |-> 0, test |-> 0 ]

\* gc while no call of Compile exists
GcIdle ==
    [ now |-> 1, fs |-> [ d \in Stamps |-> NoDir ], touched |-> [ d \in Stamps |-> { } ],
      call |-> << >> ]

\* ext while no extraction is under way
ExtIdle ==
    [ phase |-> "idle", choice |-> << >>, response |-> << >>, i |-> 1, tried |-> << >>,
      ret |-> [ main |-> << >>, test |-> << >>, strategy |-> "", err |-> FALSE ],
      out |-> [ main |-> << >>, test |-> << >>, strategy |-> "" ] ]

\* the nil *CompilationResult
NilResult == [ iter |-> 0, Success |-> FALSE, ErrorType |-> ErrorTypeUnknown, msgLen |-> 0 ]

\* the empty string, as extracted code
NoCode == << >>

\* the prompt variable before the first buildPrompt
NoPrompt == [ task |-> 0, format |-> 0, feedback |-> << >>, size |-> 0 ]

\* --------------------------------------------------------- prompt builder
\* len(truncate(s, maxLen)) for a string s of n bytes
truncate(n, maxLen) == IF n <= maxLen THEN n ELSE maxLen + 3

\* len(fmt.Sprintf("%d", n)) for n >= 0
Digits(n) == IF n < 10 THEN 1 ELSE IF n < 100 THEN 2 ELSE 3

\* the feedback section written from the third iteration on only
FeedbackSection_FromThird(it, hist, lastError, lastMsg) ==
    IF it > 2 /\ Len(hist) > 0
    THEN << [ iter |-> it - 1, kind |-> lastError, msgLen |-> truncate(lastMsg, TruncateLen) ] >>
    ELSE << >>

\* the feedback section buildPrompt writes: << >> when it writes none
FeedbackSection(it, hist, lastError, lastMsg) ==
    IF it > 1 /\ Len(hist) > 0
    THEN << [ iter |-> it - 1, kind |-> lastError, msgLen |-> truncate(lastMsg, TruncateLen) ] >>
    ELSE << >>

\* byte length of a feedback section
FeedbackLen(fb) ==
    IF fb = << >> THEN 0
    ELSE 36 + Digits(fb[1].iter) + 5
         + 12 + KindLen(fb[1].kind) + 1
         + 15 + fb[1].msgLen + 1
         + 46

\* buildPrompt(job, iteration): the prompt and its byte size
buildPrompt(it) ==
    LET fb == FeedbackSection(it, ErrorHistory, LastErrorType, LastErrorMessage)
    IN [ task |-> UserPrompt,
         format |-> FormatLen(Language),
         feedback |-> fb,
         size |-> UserPrompt + FormatLen(Language) + FeedbackLen(fb) ]

\* the size guard comparing against a limit counted in KiB instead of bytes
PromptTooLarge_KiB(promptSize) == promptSize > MaxPromptSize * 1024

\* the prompt size guard
PromptTooLarge(promptSize) == promptSize > MaxPromptSize

\* the guards at the head of an iteration with the budget checked first
IterationGuards_TimeoutFirst(done, el, budget, promptSize) ==
    IF el > budget THEN "total_timeout"
    ELSE IF done THEN "user_cancelled"
    ELSE IF PromptTooLarge(promptSize) THEN "prompt_size_exceeded"
    ELSE "ok"

\* the guards at the head of an iteration, in the order the loop body runs
\* them: the abort reason of the first one that trips, "ok" when none does
IterationGuards(done, el, budget, promptSize) ==
    IF done THEN "user_cancelled"
    ELSE IF el > budget THEN "total_timeout"
    ELSE IF PromptTooLarge(promptSize) THEN "prompt_size_exceeded"
    ELSE "ok"

\* the checks after the model call testing the response text before the error
ResponseCheck_EmptyFirst(out) ==
    IF out \in { "error", "empty" } THEN "empty_llm_response" ELSE "ok"

\* the checks of what the model call returned: llmErr != nil, then
\* llmResponse == ""
ResponseCheck(out) ==
    IF out = "error" THEN "llm_error"
    ELSE IF out = "empty" THEN "empty_llm_response"
    ELSE "ok"

\* ----------------------------------------------------------- abort policy
\* the infrastructure branch retries instead of aborting
InfraRetry(it) == it < 2

\* the stuck-loop guard looking one entry further back than the threshold
StuckLoop_OffByOne(hist, kind) ==
    /\ Len(hist) > SameErrorThreshold
    /\ \A i \in (Len(hist) - SameErrorThreshold) .. Len(hist) : hist[i] = kind
    /\ kind # ErrorTypeSuccess

\* the last SameErrorThreshold entries of the history all equal the result's kind
StuckLoop(hist, kind) ==
    /\ Len(hist) >= SameErrorThreshold
    /\ \A i \in (Len(hist) - SameErrorThreshold + 1) .. Len(hist) : hist[i] = kind
    /\ kind # ErrorTypeSuccess

\* the iteration limit check with a strict comparison
AtIterationLimit_Strict(it, cap) == it > cap

\* the iteration limit check
AtIterationLimit(it, cap) == it >= cap

\* the loop condition letting one more iteration through
LoopDone_OneMore(it, cap) == it > cap + 1

\* the loop of RunCompilationJob is left: iteration <= job.MaxIterations is false
LoopDone(it, cap) == it > cap

\* the extraction check failing only when the test code is empty as well
ExtractionFailed_BothEmpty(main, test) == main = NoCode /\ test = NoCode

\* if mainCode == "": the check of what ExtractWithFallback returned
ExtractionFailed(main, test) == main = NoCode

\* phase 5 with the iteration limit checked before the stuck-loop guard
ContinuationDecision_CapFirst(it, cap, hist, kind) ==
    IF kind = ErrorTypeInfrastructure
    THEN IF InfraRetry(it) THEN "continue" ELSE "infrastructure_error_persistent"
    ELSE IF AtIterationLimit(it, cap) THEN "max_iterations_reached"
    ELSE IF StuckLoop(hist, kind) THEN "same_error_threshold"
    ELSE "continue"

\* phase 5 for a result that is not successful, hist being the history with
\* the result's kind appended: "continue" or the abort reason
ContinuationDecision(it, cap, hist, kind) ==
    IF kind = ErrorTypeInfrastructure
    THEN IF InfraRetry(it) THEN "continue" ELSE "infrastructure_error_persistent"
    ELSE IF StuckLoop(hist, kind) THEN "same_error_threshold"
    ELSE IF AtIterationLimit(it, cap) THEN "max_iterations_reached"
    ELSE "continue"

\* ------------------------------------------------------- progress events
\* an iteration event that reports the first iteration every time
WSIteration_FirstIndex(it, main, test, r, promptSize) ==
    [ type |-> "iteration", iteration |-> 1, reason |-> "",
      success |-> r.Success, kind |-> r.ErrorType,
      main |-> main, test |-> test, promptSize |-> promptSize ]

\* sendIterationMessage
WSIteration(it, main, test, r, promptSize) ==
    [ type |-> "iteration", iteration |-> it, reason |-> "",
      success |-> r.Success, kind |-> r.ErrorType,
      main |-> main, test |-> test, promptSize |-> promptSize ]

\* a completion event that reports the previous iteration and drops the code
WSCompletion_Stale(itCount, main, test) ==
    [ type |-> "completion", iteration |-> itCount - 1, reason |-> "",
      success |-> TRUE, kind |-> ErrorTypeSuccess,
      main |-> NoCode, test |-> NoCode, promptSize |-> 0 ]

\* sendCompletionMessage: TotalIterations is job.Metrics.IterationCount
WSCompletion(itCount, main, test) ==
    [ type |-> "completion", iteration |-> itCount, reason |-> "",
      success |-> TRUE, kind |-> ErrorTypeSuccess,
      main |-> main, test |-> test, promptSize |-> 0 ]

\* sendAbortMessage: Reason is job.AbortReason, Iteration is
\* job.Metrics.IterationCount, LastErrorType the last entry of ErrorHistory
WSAbort(reason, itCount, hist) ==
    [ type |-> "abort", iteration |-> itCount, reason |-> reason,
      success |-> FALSE,
      kind |-> IF Len(hist) > 0 THEN hist[Len(hist)] ELSE ErrorTypeUnknown,
      main |-> NoCode, test |-> NoCode, promptSize |-> 0 ]

\* ------------------------------------------------- external collaborators
\* what GetOllamaResponse returns: an error, the empty string, a response
LLMOutcomes == { "error", "empty", "response" }

\* what ExtractWithFallback returns for the response of iteration it
ExtractOutcomes(it) ==
    { [ main |-> NoCode, test |-> NoCode ],
      [ main |-> NoCode, test |-> << "test", it >> ],
      [ main |-> << "main", it >>, test |-> << "test", it >> ] }

\* the results a compile backend hands back at iteration it: a pass, a timeout
\* scored as infrastructure, a long list of syntax diagnostics, a short type
\* diagnostic, failed tests without compile diagnostics, and a failed result
\* whose kind was left at success
CompilationResults(it) ==
    { [ iter |-> it, Success |-> TRUE, ErrorType |-> ErrorTypeSuccess, msgLen |-> 0 ],
      [ iter |-> it, Success |-> FALSE, ErrorType |-> ErrorTypeInfrastructure, msgLen |-> 28 ],
      [ iter |-> it, Success |-> FALSE, ErrorType |-> ErrorTypeSyntax, msgLen |-> 600 ],
      [ iter |-> it, Success |-> FALSE, ErrorType |-> ErrorTypeType, msgLen |-> 40 ],
      [ iter |-> it, Success |-> FALSE, ErrorType |-> ErrorTypeLogic, msgLen |-> 0 ],
      [ iter |-> it, Success |-> FALSE, ErrorType |-> ErrorTypeSuccess, msgLen |-> 0 ] }

\* what compileLanguage returns at iteration it: err = TRUE is (nil, error).
\* An unsupported language only has the error outcome. The backends behind
\* compileGo, compilePython and compileCPP are placeholders that return the
\* error outcome as well; the controller is checked against every outcome
\* the (*CompilationResult, error) interface lets a backend return.
CompileOutcomes(lang, it) ==
    { [ err |-> TRUE, result |-> NilResult ] }
    \cup
    IF lang \in { "go", "python", "cpp" }
    THEN { [ err |-> FALSE, result |-> r ] : r \in CompilationResults(it) }
    ELSE { }

\* ------------------------------------------------------------------- Init
JobInit ==
    /\ MaxIterations \in 0 .. MaxCap
    /\ Timeout \in Timeouts
    /\ Language \in Languages
    /\ UserPrompt \in UserPromptLens
    /\ Status = "pending"
    /\ AbortReason = ""
    /\ FinalResult = NilResult
    /\ IterationCount = 0
    /\ PromptSizes = << >>
    /\ LLMResponseTimes = << >>
    /\ LastErrorType = ErrorTypeUnknown
    /\ SameErrorCount = 0
    /\ PromptHistory = << >>
    /\ ErrorHistory = << >>
    /\ LastErrorMessage = 0
    /\ pc = "pending"
    /\ iteration = 0
    /\ prompt = NoPrompt
    /\ mainCode = NoCode
    /\ testCode = NoCode
    /\ result = NilResult
    /\ ctxDone = FALSE
    /\ elapsed = 0
    /\ panicking = FALSE
    /\ events = << >>
    /\ calls = << >>

\* a job that is never started, for the functions checked on their own
JobIdle ==
    /\ JobInit
    /\ MaxIterations = 0
    /\ Language = "go"
    /\ UserPrompt = 100

Init ==
    /\ JobInit
    /\ cls = ClsIdle
    /\ gc = GcIdle
    /\ ext = ExtIdle

\* ---------------------------------------------------------------- actions
\* job.Status = "aborted"; job.AbortReason = reason; sendAbortMessage; return
Abort(reason, itCount, hist) ==
    /\ Status' = "aborted"
    /\ AbortReason' = reason
    /\ events' = Append(events, WSAbort(reason, itCount, hist))
    /\ pc' = "deferred"

\* entry of RunCompilationJob up to the loop
Start ==
    /\ pc = "pending"
    /\ Status' = "running"
    /\ iteration' = 1
    /\ pc' = "loop"
    /\ UNCHANGED << jobIn, AbortReason, FinalResult, metrics, llmCtx, prompt, mainCode,
                    testCode, result, env, panicking, events, calls >>
    /\ UNCHANGED aux

\* loop condition, cancellation check, budget check, prompt construction and
\* prompt size guard of one iteration, up to the model call
IterationStart ==
    /\ pc = "loop"
    /\ IF LoopDone(iteration, MaxIterations)
       THEN /\ Status' = "completed"
            /\ AbortReason' = "unknown"
            /\ pc' = "deferred"
            /\ UNCHANGED << IterationCount, PromptSizes, prompt, events >>
       ELSE IF IterationGuards(ctxDone, elapsed, Timeout, buildPrompt(iteration).size)
               \in { "user_cancelled", "total_timeout" }
       THEN /\ Abort(IterationGuards(ctxDone, elapsed, Timeout, buildPrompt(iteration).size),
                     IterationCount, ErrorHistory)
            /\ UNCHANGED << IterationCount, PromptSizes, prompt >>
       ELSE /\ IterationCount' = iteration
            /\ prompt' = buildPrompt(iteration)
            /\ IF IterationGuards(ctxDone, elapsed, Timeout, buildPrompt(iteration).size)
                  = "prompt_size_exceeded"
               THEN /\ Abort("prompt_size_exceeded", iteration, ErrorHistory)
                    /\ UNCHANGED PromptSizes
               ELSE /\ PromptSizes' = Append(PromptSizes, buildPrompt(iteration).size)
                    /\ pc' = "llm"
                    /\ UNCHANGED << Status, AbortReason, events >>
    /\ UNCHANGED << jobIn, FinalResult, LLMResponseTimes, LastErrorType, SameErrorCount,
                    llmCtx, iteration, mainCode, testCode, result, env, panicking, calls >>
    /\ UNCHANGED aux

\* the response time of a model call that is not recorded
RecordResponseTime_Dropped(times, llmTime) == times

\* job.Metrics.LLMResponseTimes = append(job.Metrics.LLMResponseTimes, llmTime)
RecordResponseTime(times, llmTime) == Append(times, llmTime)

\* the model call and the checks of what it returned
LLMCall ==
    /\ pc = "llm"
    /\ \E out \in LLMOutcomes :
          /\ calls' = Append(calls, [ op |-> "llm", iter |-> iteration, kind |-> out ])
          /\ LLMResponseTimes' = RecordResponseTime(LLMResponseTimes, iteration)
          /\ IF ResponseCheck(out) # "ok"
             THEN /\ Abort(ResponseCheck(out), IterationCount, ErrorHistory)
                  /\ UNCHANGED PromptHistory
             ELSE /\ PromptHistory' = Append(PromptHistory, prompt)
                  /\ pc' = "extract"
                  /\ UNCHANGED << Status, AbortReason, events >>
    /\ UNCHANGED << jobIn, FinalResult, IterationCount, PromptSizes, LastErrorType,
                    SameErrorCount, ErrorHistory, LastErrorMessage, locals, env, panicking >>
    /\ UNCHANGED aux

\* phase 2: extraction and the empty main code check
Extract ==
    /\ pc = "extract"
    /\ \E out \in ExtractOutcomes(iteration) :
          /\ calls' = Append(calls, [ op |-> "extract", iter |-> iteration,
                                      kind |-> IF out.main = NoCode THEN "empty" ELSE "code" ])
          /\ mainCode' = out.main
          /\ testCode' = out.test
          /\ IF ExtractionFailed(out.main, out.test)
             THEN Abort("extraction_failed", IterationCount, ErrorHistory)
             ELSE /\ pc' = "compile"
                  /\ UNCHANGED << Status, AbortReason, events >>
    /\ UNCHANGED << jobIn, FinalResult, metrics, llmCtx, iteration, prompt, result, env, panicking >>
    /\ UNCHANGED aux

\* phases 3 to 5: the compile call, the iteration event, the success check,
\* the error tracking and the continuation decision
Compile ==
    /\ pc = "compile"
    /\ \E out \in CompileOutcomes(Language, iteration) :
          LET r == out.result
              hist == Append(ErrorHistory, r.ErrorType)
              sent == Append(events, WSIteration(iteration, mainCode, testCode, r,
                                                 PromptSizes[Len(PromptSizes)]))
              decision == ContinuationDecision(iteration, MaxIterations, hist, r.ErrorType)
          IN /\ calls' = Append(calls, [ op |-> "compile", iter |-> iteration,
                                         kind |-> IF out.err THEN "error" ELSE r.ErrorType ])
             /\ result' = r
             /\ IF out.err
                THEN /\ Abort("compilation_failed", IterationCount, ErrorHistory)
                     /\ UNCHANGED << FinalResult, LastErrorType, SameErrorCount, ErrorHistory,
                                     LastErrorMessage, iteration >>
                ELSE IF r.Success
                THEN /\ FinalResult' = r
                     /\ Status' = "completed"
                     /\ events' = Append(sent, WSCompletion(IterationCount, mainCode, testCode))
                     /\ pc' = "deferred"
                     /\ UNCHANGED << AbortReason, LastErrorType, SameErrorCount, ErrorHistory,
                                     LastErrorMessage, iteration >>
                ELSE /\ ErrorHistory' = hist
                     /\ LastErrorMessage' = r.msgLen
                     /\ LastErrorType' = r.ErrorType
                     /\ IF decision = "continue"
                        THEN /\ iteration' = iteration + 1
                             /\ pc' = "loop"
                             /\ events' = sent
                             /\ UNCHANGED << Status, AbortReason, FinalResult, SameErrorCount >>
                        ELSE /\ Status' = "aborted"
                             /\ AbortReason' = decision
                             /\ SameErrorCount' = IF decision = "same_error_threshold"
                                                  THEN SameErrorThreshold ELSE SameErrorCount
                             /\ FinalResult' = IF decision = "max_iterations_reached"
                                               THEN r ELSE FinalResult
                             /\ events' = Append(sent, WSAbort(decision, IterationCount, hist))
                             /\ pc' = "deferred"
                             /\ UNCHANGED iteration
    /\ UNCHANGED << jobIn, IterationCount, PromptSizes, LLMResponseTimes, PromptHistory,
                    prompt, mainCode, testCode, env, panicking >>
    /\ UNCHANGED aux

\* an unexpected fault inside one of the calls out of the loop
Panic ==
    /\ pc \in { "llm", "extract", "compile" }
    /\ panicking' = TRUE
    /\ pc' = "deferred"
    /\ UNCHANGED << jobIn, jobOut, metrics, llmCtx, locals, env, events, calls >>
    /\ UNCHANGED aux

\* the deferred function of RunCompilationJob, run on every way out
Deferred ==
    /\ pc = "deferred"
    /\ Status' = "completed"
    /\ AbortReason' = IF panicking THEN "internal_panic" ELSE AbortReason
    /\ pc' = "returned"
    /\ UNCHANGED << jobIn, FinalResult, metrics, llmCtx, locals, env, panicking, events, calls >>
    /\ UNCHANGED aux

\* the job's context is cancelled from outside
Cancel ==
    /\ pc # "returned"
    /\ ~ctxDone
    /\ ctxDone' = TRUE
    /\ UNCHANGED << jobIn, jobOut, metrics, llmCtx, pc, locals, elapsed, panicking, events, calls >>
    /\ UNCHANGED aux

\* time passes while the model call or the compile call blocks
Tick ==
    /\ pc \in { "llm", "compile" }
    /\ elapsed < MaxElapsed + 1
    /\ elapsed' = elapsed + 1
    /\ UNCHANGED << jobIn, jobOut, metrics, llmCtx, pc, locals, ctxDone, panicking, events, calls >>
    /\ UNCHANGED aux

Next ==
    \/ Start
    \/ IterationStart
    \/ LLMCall
    \/ Extract
    \/ Compile
    \/ Panic
    \/ Deferred
    \/ Cancel
    \/ Tick

Spec == Init /\ [][Next]_vars

\* the job's goroutine is scheduled, and every model call, extraction and
\* compile call returns
FairSpec ==
    /\ Spec
    /\ WF_vars(Start)
    /\ WF_vars(IterationStart)
    /\ WF_vars(LLMCall)
    /\ WF_vars(Extract)
    /\ WF_vars(Compile)
    /\ WF_vars(Deferred)

\* ================================================================ strings
\* A string is a sequence of one-character strings.
NL == "\n"
DQ == "\""
TAB == "\t"

UpperChars ==
    << "A", "B", "C", "D", "E", "F", "G", "H", "I", "J", "K", "L", "M",
       "N", "O", "P", "Q", "R", "S", "T", "U", "V", "W", "X", "Y", "Z" >>
LowerChars ==
    << "a", "b", "c", "d", "e", "f", "g", "h", "i", "j", "k", "l", "m",
       "n", "o", "p", "q", "r", "s", "t", "u", "v", "w", "x", "y", "z" >>

\* strings.ToLower on one character
LowerChar(c) ==
    IF \E i \in 1 .. 26 : UpperChars[i] = c
    THEN LowerChars[CHOOSE i \in 1 .. 26 : UpperChars[i] = c]
    ELSE c

\* strings.ToLower
ToLower(s) == [ i \in 1 .. Len(s) |-> LowerChar(s[i]) ]

\* s has sub at offset i (0-based)
HasAt(s, sub, i) ==
    /\ i >= 0
    /\ i + Len(sub) <= Len(s)
    /\ \A j \in 1 .. Len(sub) : s[i + j] = sub[j]

\* strings.Contains
Contains(s, sub) == \E i \in 0 .. (Len(s) - Len(sub)) : HasAt(s, sub, i)

\* strings.HasPrefix
HasPrefix(s, prefix) == HasAt(s, prefix, 0)

\* the concatenation of a sequence of strings
RECURSIVE Concat(_)
Concat(ss) == IF ss = << >> THEN << >> ELSE Head(ss) \o Concat(Tail(ss))

\* ======================================================= error classifier
ErrorTypeGoUnknown == "unknown"
ErrorTypeGoInfrastructure == "infrastructure"
ErrorTypeGoSyntax == "syntax"
ErrorTypeGoType == "type"
ErrorTypeGoLogic == "logic"
ErrorTypeGoRuntime == "runtime"
ErrorTypeGoSuccess == "success"

infraPatterns ==
    << << "g", "o", ".", "m", "o", "d", " ", "a", "l", "r", "e", "a", "d", "y", " ", "e", "x",
          "i", "s", "t", "s" >>,
       << "c", "a", "n", "n", "o", "t", " ", "f", "i", "n", "d", " ", "p", "a", "c", "k", "a",
          "g", "e" >>,
       << "n", "o", "t", " ", "i", "n", " ", "G", "O", "P", "A", "T", "H" >>,
       << "i", "n", "v", "a", "l", "i", "d", " ", "g", "o", ".", "m", "o", "d" >>,
       << "m", "o", "d", "u", "l", "e", " ", "n", "o", "t", " ", "f", "o", "u", "n", "d" >>,
       << "g", "o", " ", "g", "e", "t" >> >>

syntaxPatterns ==
    << << "s", "y", "n", "t", "a", "x", " ", "e", "r", "r", "o", "r" >>,
       << "e", "x", "p", "e", "c", "t", "e", "d" >>,
       << "u", "n", "e", "x", "p", "e", "c", "t", "e", "d" >>,
       << "i", "n", "v", "a", "l", "i", "d", " ", "o", "p", "e", "r", "a", "t", "i", "o", "n" >>,
       << "u", "n", "c", "l", "o", "s", "e", "d" >> >>

typePatterns ==
    << << "u", "n", "d", "e", "f", "i", "n", "e", "d" >>,
       << "t", "y", "p", "e" >>,
       << "c", "a", "n", "n", "o", "t", " ", "u", "s", "e" >>,
       << "m", "i", "s", "m", "a", "t", "c", "h", "e", "d", " ", "t", "y", "p", "e", "s" >>,
       << "w", "r", "o", "n", "g", " ", "n", "u", "m", "b", "e", "r", " ", "o", "f", " ", "a",
          "r", "g", "u", "m", "e", "n", "t", "s" >>,
       << "n", "o", "t", " ", "a", " ", "f", "u", "n", "c", "t", "i", "o", "n" >> >>

runtimePatterns ==
    << << "p", "a", "n", "i", "c" >>,
       << "f", "a", "t", "a", "l" >>,
       << "s", "i", "g", "n", "a", "l", ":", " ", "s", "e", "g", "m", "e", "n", "t", "a", "t",
          "i", "o", "n" >>,
       << "r", "u", "n", "t", "i", "m", "e", " ", "e", "r", "r", "o", "r" >> >>

\* one pattern loop of classifyGoError over the lower-cased output
MatchesAny(output, patterns) ==
    \E i \in 1 .. Len(patterns) : Contains(output, ToLower(patterns[i]))

\* classifyGoError trying the syntax patterns before the infrastructure ones
classifyGoError_SyntaxFirst(output, compileErrors, testErrors) ==
    LET out == ToLower(output)
    IN IF MatchesAny(out, syntaxPatterns) THEN ErrorTypeGoSyntax
       ELSE IF MatchesAny(out, infraPatterns) THEN ErrorTypeGoInfrastructure
       ELSE IF MatchesAny(out, typePatterns) THEN ErrorTypeGoType
       ELSE IF MatchesAny(out, runtimePatterns) THEN ErrorTypeGoRuntime
       ELSE IF Len(testErrors) > 0 THEN ErrorTypeGoLogic
       ELSE IF Len(compileErrors) > 0 THEN ErrorTypeGoType
       ELSE ErrorTypeGoUnknown

\* classifyGoError looking at the compile diagnostics before the test ones
classifyGoError_CompileFirst(output, compileErrors, testErrors) ==
    LET out == ToLower(output)
    IN IF MatchesAny(out, infraPatterns) THEN ErrorTypeGoInfrastructure
       ELSE IF MatchesAny(out, syntaxPatterns) THEN ErrorTypeGoSyntax
       ELSE IF MatchesAny(out, typePatterns) THEN ErrorTypeGoType
       ELSE IF MatchesAny(out, runtimePatterns) THEN ErrorTypeGoRuntime
       ELSE IF Len(compileErrors) > 0 THEN ErrorTypeGoType
       ELSE IF Len(testErrors) > 0 THEN ErrorTypeGoLogic
       ELSE ErrorTypeGoUnknown

\* classifyGoError
classifyGoError(output, compileErrors, testErrors) ==
    LET out == ToLower(output)
    IN IF MatchesAny(out, infraPatterns) THEN ErrorTypeGoInfrastructure
       ELSE IF MatchesAny(out, syntaxPatterns) THEN ErrorTypeGoSyntax
       ELSE IF MatchesAny(out, typePatterns) THEN ErrorTypeGoType
       ELSE IF MatchesAny(out, runtimePatterns) THEN ErrorTypeGoRuntime
       ELSE IF Len(testErrors) > 0 THEN ErrorTypeGoLogic
       ELSE IF Len(compileErrors) > 0 THEN ErrorTypeGoType
       ELSE ErrorTypeGoUnknown

\* pieces of tool output the classifier is applied to, each ending its line
OutputFragments ==
    << << "g", "o", ":", " ", "g", "o", ".", "m", "o", "d", " ", "a", "l", "r", "e", "a", "d",
          "y", " ", "e", "x", "i", "s", "t", "s", NL >>,
       << "N", "o", "t", " ", "I", "n", " ", "G", "O", "P", "A", "T", "H", NL >>,
       << "S", "y", "n", "t", "a", "x", " ", "E", "r", "r", "o", "r", NL >>,
       << "U", "N", "D", "E", "F", "I", "N", "E", "D", ":", " ", "x", NL >>,
       << "p", "a", "n", "i", "c", ":", " ", "b", "o", "o", "m", NL >>,
       << "-", "-", "-", " ", "F", "A", "I", "L", NL >>,
       << "m", "a", "i", "n", ".", "g", "o", ":", "1", ":", " ", "b", "a", "d", NL >> >>

\* the outputs: up to MaxFrags pieces, one after the other
FragmentChoices(n) == UNION { [ 1 .. k -> 1 .. n ] : k \in 0 .. MaxFrags }
OutputOf(choice) == Concat([ i \in 1 .. Len(choice) |-> OutputFragments[choice[i]] ])

\* the diagnostic lists handed to the classifier: up to MaxDiag lines each
DiagLists == { [ i \in 1 .. k |-> << "x" >> ] : k \in 0 .. MaxDiag }

InitClassify ==
    /\ JobIdle
    /\ gc = GcIdle
    /\ ext = ExtIdle
    /\ \E choice \in FragmentChoices(Len(OutputFragments)) :
       \E ce \in DiagLists :
       \E te \in DiagLists :
          cls = [ phase |-> "input", choice |-> choice, output |-> OutputOf(choice),
                  compileErrors |-> ce, testErrors |-> te, kind |-> "" ]

\* one call of classifyGoError
Classify ==
    /\ cls.phase = "input"
    /\ cls' = [ cls EXCEPT !.phase = "done",
                           !.kind = classifyGoError(cls.output, cls.compileErrors,
                                                    cls.testErrors) ]
    /\ UNCHANGED << jobVars, gc, ext >>

NextClassify == Classify

SpecClassify == InitClassify /\ [][NextClassify]_vars

\* strings.Index: the 0-based offset of the first sub in s, -1 if there is none
Index(s, sub) ==
    IF Contains(s, sub)
    THEN CHOOSE i \in 0 .. (Len(s) - Len(sub)) :
            /\ HasAt(s, sub, i)
            /\ \A j \in 0 .. (i - 1) : ~HasAt(s, sub, j)
    ELSE 0 - 1

\* strings.Split with a non-empty separator
RECURSIVE Split(_, _)
Split(s, sep) ==
    IF Contains(s, sep)
    THEN LET i == Index(s, sep)
         IN  << SubSeq(s, 1, i) >> \o Split(SubSeq(s, i + Len(sep) + 1, Len(s)), sep)
    ELSE << s >>

\* the white space strings.TrimSpace removes
IsSpace(c) == c \in { " ", NL, TAB }

\* strings.TrimSpace
TrimSpace(s) ==
    IF \A i \in 1 .. Len(s) : IsSpace(s[i])
    THEN << >>
    ELSE LET a == CHOOSE i \in 1 .. Len(s) :
                     ~IsSpace(s[i]) /\ \A j \in 1 .. (i - 1) : IsSpace(s[j])
             b == CHOOSE i \in 1 .. Len(s) :
                     ~IsSpace(s[i]) /\ \A j \in (i + 1) .. Len(s) : IsSpace(s[j])
         IN  SubSeq(s, a, b)

\* strings.TrimSpace on every string of a list
TrimAll(ss) == [ i \in 1 .. Len(ss) |-> TrimSpace(ss[i]) ]

\* ============================================================ GoCompilerV2
ErrorTypeGo ==
    { ErrorTypeGoUnknown, ErrorTypeGoInfrastructure, ErrorTypeGoSyntax, ErrorTypeGoType,
      ErrorTypeGoLogic, ErrorTypeGoRuntime, ErrorTypeGoSuccess }

MainGoMarker == 
    << "m", "a", "i", "n", ".", "g", "o", ":" >>
FailMarker == 
    << "F", "A", "I", "L" >>
ErrorMarker == 
    << "E", "r", "r", "o", "r", ":" >>

\* parseGoErrors: << compileErrors, testErrors >> of an output
parseGoErrors(output) ==
    LET lines == Split(output, << NL >>)
        IsCompileLine(line) == Contains(line, MainGoMarker)
        IsTestLine(line) == Contains(line, FailMarker) \/ Contains(line, ErrorMarker)
    IN  << TrimAll(SelectSeq(lines, IsCompileLine)),
           TrimAll(SelectSeq(lines, IsTestLine)) >>

MkdirFailed == 
    << "F", "a", "i", "l", "e", "d", " ", "t", "o", " ", "c", "r", "e", "a", "t", "e", " ",
       "t", "e", "m", "p", " ", "d", "i", "r", "e", "c", "t", "o", "r", "y", ":", " " >>
WriteMainFailed == 
    << "F", "a", "i", "l", "e", "d", " ", "t", "o", " ", "w", "r", "i", "t", "e", " ", "m",
       "a", "i", "n", ".", "g", "o", ":", " " >>
WriteTestFailed == 
    << "F", "a", "i", "l", "e", "d", " ", "t", "o", " ", "w", "r", "i", "t", "e", " ", "m",
       "a", "i", "n", "_", "t", "e", "s", "t", ".", "g", "o", ":", " " >>
CompilationTimeout == 
    << "C", "o", "m", "p", "i", "l", "a", "t", "i", "o", "n", " ", "t", "i", "m", "e", "o",
       "u", "t" >>
CompilationExceededTimeout == 
    << "C", "o", "m", "p", "i", "l", "a", "t", "i", "o", "n", " ", "e", "x", "c", "e", "e",
       "d", "e", "d", " ", "t", "i", "m", "e", "o", "u", "t" >>

\* result := &CompilationResultV2{...}: every field but ExecutionTime is zero
NewResult ==
    [ Success |-> FALSE, ExitCode |-> 0, RawOutput |-> << >>,
      ErrorType |-> ErrorTypeGoUnknown, CompileErrors |-> << >>, TestErrors |-> << >> ]

\* the result of a failed MkdirAll or WriteFile
IOFailure(r, msg) ==
    [ r EXCEPT !.ErrorType = ErrorTypeGoInfrastructure,
               !.RawOutput = msg,
               !.CompileErrors = Append(@, msg) ]

\* the result of the ctx.Done() branch of the select
TimeoutResult(r) ==
    [ r EXCEPT !.ErrorType = ErrorTypeGoInfrastructure,
               !.RawOutput = CompilationTimeout,
               !.CompileErrors = Append(@, CompilationExceededTimeout) ]

\* the doneChan branch with the diagnostics parsed before err is looked at
ExitResult_ParseFirst(r, err, fullOutput) ==
    LET parsed == parseGoErrors(fullOutput)
    IN  IF err = "nil"
        THEN [ r EXCEPT !.RawOutput = fullOutput, !.Success = TRUE,
                        !.ErrorType = ErrorTypeGoSuccess, !.ExitCode = 0,
                        !.CompileErrors = parsed[1], !.TestErrors = parsed[2] ]
        ELSE [ r EXCEPT !.RawOutput = fullOutput, !.ExitCode = 1,
                        !.CompileErrors = parsed[1], !.TestErrors = parsed[2],
                        !.ErrorType = classifyGoError(fullOutput, parsed[1], parsed[2]) ]

\* the result of the doneChan branch of the select; err is "nil" or an error
ExitResult(r, err, fullOutput) ==
    IF err = "nil"
    THEN [ r EXCEPT !.RawOutput = fullOutput, !.Success = TRUE,
                    !.ErrorType = ErrorTypeGoSuccess, !.ExitCode = 0 ]
    ELSE LET parsed == parseGoErrors(fullOutput)
         IN  [ r EXCEPT !.RawOutput = fullOutput, !.ExitCode = 1,
                        !.CompileErrors = parsed[1], !.TestErrors = parsed[2],
                        !.ErrorType = classifyGoError(fullOutput, parsed[1], parsed[2]) ]

\* what the child process does when left alone: its exit status and the pieces
\* of output it writes
ChildOutcomes == [ ok : BOOLEAN, choice : FragmentChoices(Len(OutputFragments)) ]

\* a call of Compile that has not begun. pc is the position of the calling
\* goroutine, gpc the position of the goroutine that runs cmd.Run(), proc the
\* state of cmd.Process, fired whether ctx became done while the child ran.
NewCall(done, outcome) ==
    [ pc |-> "idle", gpc |-> "none", ctxDone |-> done, fired |-> FALSE,
      outcome |-> outcome, tempDir |-> 0, proc |-> "nil", doneChan |-> << >>,
      stdout |-> << >>, result |-> NewResult, panicked |-> FALSE ]

\* one call of Compile, any child, ctx done on entry or not
InitCompile ==
    /\ JobIdle
    /\ cls = ClsIdle
    /\ ext = ExtIdle
    /\ \E done \in BOOLEAN :
       \E outcome \in ChildOutcomes :
          gc = [ GcIdle EXCEPT !.call = << NewCall(done, outcome) >> ]

\* the children of the overlapping calls: one that passes, one that fails
OverlapOutcomes == { [ ok |-> TRUE, choice |-> << >> ], [ ok |-> FALSE, choice |-> << 7 >> ] }

\* two calls of Compile made by two jobs, each with its own ctx
InitOverlap ==
    /\ JobIdle
    /\ cls = ClsIdle
    /\ ext = ExtIdle
    /\ \E o1 \in OverlapOutcomes :
       \E o2 \in OverlapOutcomes :
          gc = [ GcIdle EXCEPT !.call = << NewCall(FALSE, o1), NewCall(FALSE, o2) >> ]

\* tempDir := ..."go_compile_%d", time.Now().UnixNano()
CompileBegin(c) ==
    /\ gc.call[c].pc = "idle"
    /\ gc' = [ gc EXCEPT !.call[c].pc = "mkdir", !.call[c].tempDir = gc.now ]
    /\ UNCHANGED << jobVars, cls, ext >>

\* os.MkdirAll(tempDir): no error when the directory is there already
MkdirAll(c) ==
    /\ gc.call[c].pc = "mkdir"
    /\ LET d == gc.call[c].tempDir
       IN  \E ok \in BOOLEAN :
              gc' = IF ok
                    THEN [ gc EXCEPT !.fs[d].exists = TRUE,
                                     !.touched[d] = @ \cup { c },
                                     !.call[c].pc = "writeMain" ]
                    ELSE [ gc EXCEPT !.call[c].result = IOFailure(@, MkdirFailed),
                                     !.call[c].pc = "done" ]
    /\ UNCHANGED << jobVars, cls, ext >>

\* os.WriteFile(mainFile): fails when the directory is gone
WriteMain(c) ==
    /\ gc.call[c].pc = "writeMain"
    /\ LET d == gc.call[c].tempDir
       IN  \E ok \in (IF gc.fs[d].exists THEN BOOLEAN ELSE { FALSE }) :
              gc' = IF ok
                    THEN [ gc EXCEPT !.fs[d].main = c,
                                     !.touched[d] = @ \cup { c },
                                     !.call[c].pc = "writeTest" ]
                    ELSE [ gc EXCEPT !.touched[d] = @ \cup { c },
                                     !.call[c].result = IOFailure(@, WriteMainFailed),
                                     !.call[c].pc = "cleanup" ]
    /\ UNCHANGED << jobVars, cls, ext >>

\* os.WriteFile(testFile)
WriteTest(c) ==
    /\ gc.call[c].pc = "writeTest"
    /\ LET d == gc.call[c].tempDir
       IN  \E ok \in (IF gc.fs[d].exists THEN BOOLEAN ELSE { FALSE }) :
              gc' = IF ok
                    THEN [ gc EXCEPT !.fs[d].test = c,
                                     !.touched[d] = @ \cup { c },
                                     !.call[c].pc = "run" ]
                    ELSE [ gc EXCEPT !.touched[d] = @ \cup { c },
                                     !.call[c].result = IOFailure(@, WriteTestFailed),
                                     !.call[c].pc = "cleanup" ]
    /\ UNCHANGED << jobVars, cls, ext >>

\* exec.CommandContext, make(chan error, 1), go func() { doneChan <- cmd.Run() }()
RunCommand(c) ==
    /\ gc.call[c].pc = "run"
    /\ gc' = [ gc EXCEPT !.call[c].pc = "select", !.call[c].gpc = "start" ]
    /\ UNCHANGED << jobVars, cls, ext >>

\* the goroutine: cmd.Run() starts the child. With ctx done already, or the
\* directory gone, Start returns an error and cmd.Process stays nil.
CmdStart(c) ==
    /\ gc.call[c].gpc = "start"
    /\ LET d == gc.call[c].tempDir
       IN  gc' = IF gc.call[c].ctxDone \/ ~gc.fs[d].exists
                 THEN [ gc EXCEPT !.call[c].doneChan = << "start" >>,
                                  !.call[c].gpc = "sent" ]
                 ELSE [ gc EXCEPT !.touched[d] = @ \cup { c },
                                  !.call[c].proc = "running",
                                  !.call[c].gpc = "wait" ]
    /\ UNCHANGED << jobVars, cls, ext >>

\* the goroutine: the child ends by itself, cmd.Run() returns and its error is
\* sent. The child builds and tests the files that are in its directory.
ChildExit(c) ==
    /\ gc.call[c].gpc = "wait"
    /\ gc.call[c].proc = "running"
    /\ LET d == gc.call[c].tempDir
           owner == gc.fs[d].main
           outcome == IF gc.fs[d].exists /\ owner \in DOMAIN gc.call
                      THEN gc.call[owner].outcome
                      ELSE [ ok |-> FALSE, choice |-> << >> ]
       IN  gc' = [ gc EXCEPT !.touched[d] = @ \cup { c },
                             !.call[c].proc = "exited",
                             !.call[c].stdout = OutputOf(outcome.choice),
                             !.call[c].doneChan = << IF outcome.ok THEN "nil" ELSE "exit" >>,
                             !.call[c].gpc = "sent" ]
    /\ UNCHANGED << jobVars, cls, ext >>

\* the goroutine: the child is killed, by exec's watcher of ctx or by the
\* Kill of the select; cmd.Run() returns the error and it is sent. The child
\* has written some of its output.
ChildKilled(c) ==
    /\ gc.call[c].gpc = "wait"
    /\ \/ gc.call[c].proc = "running" /\ gc.call[c].ctxDone
       \/ gc.call[c].proc = "killed"
    /\ \E k \in 0 .. Len(gc.call[c].outcome.choice) :
          gc' = [ gc EXCEPT !.call[c].proc = "killed",
                            !.call[c].stdout =
                                OutputOf(SubSeq(gc.call[c].outcome.choice, 1, k)),
                            !.call[c].doneChan = << "killed" >>,
                            !.call[c].gpc = "sent" ]
    /\ UNCHANGED << jobVars, cls, ext >>

\* the deadline of ctx passes, or ctx is cancelled
CtxDone(c) ==
    /\ ~gc.call[c].ctxDone
    /\ gc.call[c].pc \notin { "done", "panicked" }
    /\ gc' = [ gc EXCEPT !.call[c].ctxDone = TRUE,
                         !.call[c].fired = (gc.call[c].proc = "running") ]
    /\ UNCHANGED << jobVars, cls, ext >>

\* select, case <-ctx.Done(). cmd.Process is written by the goroutine and read
\* here with no synchronisation: the read gives nil before the goroutine has
\* started the child, and nil or the process after. Kill on nil panics.
SelectCtxDone(c) ==
    /\ gc.call[c].pc = "select"
    /\ gc.call[c].ctxDone
    /\ \E seen \in (IF gc.call[c].proc = "nil" THEN { FALSE } ELSE BOOLEAN) :
          gc' = IF seen
                THEN [ gc EXCEPT !.call[c].proc = IF @ = "running" THEN "killed" ELSE @,
                                 !.call[c].result = TimeoutResult(@),
                                 !.call[c].pc = "cleanup" ]
                ELSE [ gc EXCEPT !.call[c].panicked = TRUE,
                                 !.call[c].pc = "cleanup" ]
    /\ UNCHANGED << jobVars, cls, ext >>

\* select, case err := <-doneChan
SelectDoneChan(c) ==
    /\ gc.call[c].pc = "select"
    /\ gc.call[c].doneChan # << >>
    /\ gc' = [ gc EXCEPT !.call[c].result =
                             ExitResult(@, gc.call[c].doneChan[1],
                                        gc.call[c].stdout \o << NL >>),
                         !.call[c].doneChan = << >>,
                         !.call[c].pc = "cleanup" ]
    /\ UNCHANGED << jobVars, cls, ext >>

\* defer os.RemoveAll(tempDir), run on return and on panic
RemoveAll(c) ==
    /\ gc.call[c].pc = "cleanup"
    /\ LET d == gc.call[c].tempDir
       IN  gc' = [ gc EXCEPT !.fs[d] = NoDir,
                             !.touched[d] = @ \cup { c },
                             !.call[c].pc = IF gc.call[c].panicked THEN "panicked"
                                            ELSE "done" ]
    /\ UNCHANGED << jobVars, cls, ext >>

\* the clock moves on
ClockTick ==
    /\ DOMAIN gc.call # { }
    /\ gc.now < MaxStamp
    /\ gc' = [ gc EXCEPT !.now = @ + 1 ]
    /\ UNCHANGED << jobVars, cls, ext >>

NextCompile ==
    \/ \E c \in DOMAIN gc.call : CompileBegin(c)
    \/ \E c \in DOMAIN gc.call : MkdirAll(c)
    \/ \E c \in DOMAIN gc.call : WriteMain(c)
    \/ \E c \in DOMAIN gc.call : WriteTest(c)
    \/ \E c \in DOMAIN gc.call : RunCommand(c)
    \/ \E c \in DOMAIN gc.call : CmdStart(c)
    \/ \E c \in DOMAIN gc.call : ChildExit(c)
    \/ \E c \in DOMAIN gc.call : ChildKilled(c)
    \/ \E c \in DOMAIN gc.call : CtxDone(c)
    \/ \E c \in DOMAIN gc.call : SelectCtxDone(c)
    \/ \E c \in DOMAIN gc.call : SelectDoneChan(c)
    \/ \E c \in DOMAIN gc.call : RemoveAll(c)
    \/ ClockTick

SpecCompile == InitCompile /\ [][NextCompile]_vars

SpecOverlap == InitOverlap /\ [][NextCompile]_vars

\* ============================================================== extraction
\* the backquote
BT == "backquote"
Fence == << BT, BT, BT >>
GoFence == << BT, BT, BT, "g", "o", NL >>
FuncKeyword == << "f", "u", "n", "c" >>
TestKeyword == << "T", "e", "s", "t" >>
FuncTest == << "f", "u", "n", "c", " ", "T", "e", "s", "t" >>
PackageKeyword == << "p", "a", "c", "k", "a", "g", "e" >>
PackageMain == << "p", "a", "c", "k", "a", "g", "e", " ", "m", "a", "i", "n" >>
PackageMainHeader == << "p", "a", "c", "k", "a", "g", "e", " ", "m", "a", "i", "n", NL >>
TestingHeader == << "p", "a", "c", "k", "a", "g", "e", " ", "m", "a", "i", "n", NL, "i", "m", "p", "o",
       "r", "t", " ", DQ, "t", "e", "s", "t", "i", "n", "g", DQ, NL >>

\* strings.Index from an offset on: the 0-based offset of the first sub in s
\* at or after from, -1 if there is none
IndexFrom(s, sub, from) ==
    IF \E i \in from .. (Len(s) - Len(sub)) : HasAt(s, sub, i)
    THEN CHOOSE i \in from .. (Len(s) - Len(sub)) :
            /\ HasAt(s, sub, i)
            /\ \A j \in from .. (i - 1) : ~HasAt(s, sub, j)
    ELSE 0 - 1

\* [a-z]
IsLowerLetter(c) == \E i \in 1 .. 26 : LowerChars[i] = c

\* \s of the regular expressions
IsReSpace(c) == c \in { " ", NL, TAB }

\* a fence, lower-case letters or none, and a line end at offset i: the offset after the match, -1 if none
AnyFenceOpen(s, i) ==
    IF ~HasAt(s, Fence, i)
    THEN 0 - 1
    ELSE LET j == i + 3
             run == CHOOSE k \in 0 .. (Len(s) - j) :
                       /\ \A m \in 1 .. k : IsLowerLetter(s[j + m])
                       /\ (j + k = Len(s) \/ ~IsLowerLetter(s[j + k + 1]))
         IN  IF j + run < Len(s) /\ s[j + run + 1] = NL THEN j + run + 1 ELSE 0 - 1

\* a fence, go and a line end at offset i: the offset after the match, -1 if none
GoFenceOpen(s, i) == IF HasAt(s, GoFence, i) THEN i + Len(GoFence) ELSE 0 - 1

\* FindAllStringSubmatch of codeBlockPattern (tagged FALSE) and of
\* goBlockPattern (tagged TRUE) from offset from on: the captured groups of
\* the successive leftmost matches, each the shortest text up to a fence
RECURSIVE FindBlocks(_, _, _)
FindBlocks(s, from, tagged) ==
    LET Open(i) == IF tagged THEN GoFenceOpen(s, i) ELSE AnyFenceOpen(s, i)
        starts == { i \in from .. Len(s) :
                       Open(i) >= 0 /\ IndexFrom(s, Fence, Open(i)) >= 0 }
    IN  IF starts = { }
        THEN << >>
        ELSE LET i == CHOOSE a \in starts : \A b \in starts : a <= b
                 p == IndexFrom(s, Fence, Open(i))
             IN  << SubSeq(s, Open(i) + 1, p) >> \o FindBlocks(s, p + 3, tagged)

\* (?m)^func\s+Test matches at offset i
TestMarkerAt(s, i) ==
    /\ (i = 0 \/ s[i] = NL)
    /\ HasAt(s, FuncKeyword, i)
    /\ \E k \in 1 .. (Len(s) - i - Len(FuncKeyword)) :
          /\ \A m \in 1 .. k : IsReSpace(s[i + Len(FuncKeyword) + m])
          /\ HasAt(s, TestKeyword, i + Len(FuncKeyword) + k)

\* strings.Trim of the backquotes
TrimBackticks(s) ==
    IF \A i \in 1 .. Len(s) : s[i] = BT
    THEN << >>
    ELSE LET a == CHOOSE i \in 1 .. Len(s) : s[i] # BT /\ \A j \in 1 .. (i - 1) : s[j] = BT
             b == CHOOSE i \in 1 .. Len(s) :
                     s[i] # BT /\ \A j \in (i + 1) .. Len(s) : s[j] = BT
         IN  SubSeq(s, a, b)

\* what a strategy returns: err == nil, main, test
Extracted(main, test) == [ ok |-> TRUE, main |-> main, test |-> test ]
Rejected == [ ok |-> FALSE, main |-> << >>, test |-> << >> ]

\* the first two fenced blocks, trimmed, when both are non-empty
TwoBlocks(matches) ==
    IF Len(matches) < 2
    THEN Rejected
    ELSE LET mainText == TrimSpace(matches[1])
             testText == TrimSpace(matches[2])
         IN  IF Len(mainText) = 0 \/ Len(testText) = 0
             THEN Rejected
             ELSE Extracted(mainText, testText)

StandardFormatStrategy(response) == TwoBlocks(FindBlocks(response, 0, FALSE))

LanguageTagStrategy(response) == TwoBlocks(FindBlocks(response, 0, TRUE))

\* the declaration split content with one declaration, both codes cut from
\* the text after it
PackageMainStrategy_OneDeclaration(response) ==
    LET parts == Split(response, PackageMain)
    IN  IF Len(parts) < 2
        THEN Rejected
        ELSE LET mainText == TrimSpace(TrimBackticks(TrimSpace(PackageMain \o parts[2])))
                 testText == TrimSpace(TrimBackticks(TrimSpace(PackageMain \o parts[Len(parts)])))
             IN  IF Len(mainText) < 50 \/ Len(testText) < 50
                 THEN Rejected
                 ELSE Extracted(mainText, testText)

PackageMainStrategy(response) ==
    LET parts == Split(response, PackageMain)
    IN  IF Len(parts) < 3
        THEN Rejected
        ELSE LET mainText == TrimSpace(TrimBackticks(TrimSpace(PackageMain \o parts[2])))
                 testText == TrimSpace(TrimBackticks(TrimSpace(PackageMain \o parts[3])))
             IN  IF Len(mainText) < 50 \/ Len(testText) < 50
                 THEN Rejected
                 ELSE Extracted(mainText, testText)

TestMarkerStrategy(response) ==
    IF ~\E i \in 0 .. Len(response) : TestMarkerAt(response, i)
    THEN Rejected
    ELSE LET loc == CHOOSE i \in 0 .. Len(response) :
                       /\ TestMarkerAt(response, i)
                       /\ \A j \in 0 .. (i - 1) : ~TestMarkerAt(response, j)
             main0 == TrimSpace(SubSeq(response, 1, loc))
             test0 == TrimSpace(SubSeq(response, loc + 1, Len(response)))
             main1 == IF HasPrefix(main0, PackageKeyword) THEN main0
                      ELSE PackageMainHeader \o main0
             test1 == IF HasPrefix(test0, PackageKeyword) THEN test0
                      ELSE TestingHeader \o test0
             mainText == TrimBackticks(main1)
             testText == TrimBackticks(test1)
         IN  IF Len(mainText) < 30 \/ Len(testText) < 30
             THEN Rejected
             ELSE Extracted(mainText, testText)

\* the single block strategy rejecting a first block that is empty
SingleFileStrategy_RejectEmpty(response) ==
    LET matches == FindBlocks(response, 0, FALSE)
    IN  IF Len(matches) = 0
        THEN IF Len(response) > 50 THEN Extracted(TrimSpace(response), << >>) ELSE Rejected
        ELSE LET code == TrimSpace(matches[1])
             IN  IF code = << >>
                 THEN Rejected
                 ELSE IF Contains(code, FuncTest)
                 THEN LET idx == Index(code, FuncTest)
                          main == TrimSpace(SubSeq(code, 1, idx))
                          test == TrimSpace(SubSeq(code, idx + 1, Len(code)))
                      IN  Extracted(main,
                                    IF HasPrefix(test, PackageKeyword) THEN test
                                    ELSE TestingHeader \o test)
                 ELSE Extracted(code, << >>)

SingleFileStrategy(response) ==
    LET matches == FindBlocks(response, 0, FALSE)
    IN  IF Len(matches) = 0
        THEN IF Len(response) > 50 THEN Extracted(TrimSpace(response), << >>) ELSE Rejected
        ELSE LET code == TrimSpace(matches[1])
             IN  IF Contains(code, FuncTest)
                 THEN LET idx == Index(code, FuncTest)
                          main == TrimSpace(SubSeq(code, 1, idx))
                          test == TrimSpace(SubSeq(code, idx + 1, Len(code)))
                      IN  Extracted(main,
                                    IF HasPrefix(test, PackageKeyword) THEN test
                                    ELSE TestingHeader \o test)
                 ELSE Extracted(code, << >>)

\* strat.Extract(response) of the strategy called name
StrategyExtract(name, response) ==
    CASE name = "standard_format" -> StandardFormatStrategy(response)
      [] name = "language_tag_split" -> LanguageTagStrategy(response)
      [] name = "test_marker_split" -> TestMarkerStrategy(response)
      [] name = "package_main_split" -> PackageMainStrategy(response)
      [] name = "single_file_fallback" -> SingleFileStrategy(response)

\* the strategies with the marker split moved to the front
NewExtractor_MarkerFirst ==
    << "test_marker_split", "standard_format", "language_tag_split", "package_main_split",
       "single_file_fallback" >>

\* e.strategies, by the names of the strategies
NewExtractor ==
    << "standard_format", "language_tag_split", "test_marker_split", "package_main_split",
       "single_file_fallback" >>

\* the tail of ExtractWithFallback, run when Extract returned an error
Fallback(response) ==
    LET matches == FindBlocks(response, 0, FALSE)
    IN  IF Len(matches) > 0
        THEN [ main |-> TrimSpace(matches[1]),
               test |-> IF Len(matches) > 1 THEN TrimSpace(matches[2]) ELSE << >>,
               strategy |-> "emergency_fallback" ]
        ELSE [ main |-> TrimSpace(response), test |-> << >>, strategy |-> "raw_response" ]

\* pieces of model response the extractor is applied to
ResponseFragments ==
    << << BT, BT, BT, "g", "o", NL, "p", "a", "c", "k", "a", "g", "e", " ", "m", "a", "i", "n",
          NL, "f", "u", "n", "c", " ", "m", "a", "i", "n", "(", ")", " ", "{", "}", NL,
          BT, BT, BT, NL >>,
       << BT, BT, BT, NL, "f", "u", "n", "c", " ", "H", "e", "l", "p", "e", "r", "(", ")", " ",
          "{", "}", NL, BT, BT, BT, NL >>,
       << BT, BT, BT, NL, BT, BT, BT, NL >>,
       << BT, BT, BT, "p", "y", "t", "h", "o", "n", NL, "p", "r", "i", "n", "t", "(", "1", ")",
          NL, BT, BT, BT, NL >>,
       << BT, BT, BT, "G", "o", NL, "v", "a", "r", " ", "x", " ", "=", " ", "1", NL, BT, BT, BT,
          NL >>,
       << "p", "a", "c", "k", "a", "g", "e", " ", "m", "a", "i", "n", NL, "f", "u", "n", "c",
          " ", "A", "d", "d", "(", "a", " ", "i", "n", "t", ",", " ", "b", " ", "i", "n",
          "t", ")", " ", "i", "n", "t", " ", "{", " ", "r", "e", "t", "u", "r", "n", " ",
          "a", " ", "+", " ", "b", " ", "}", NL >>,
       << "f", "u", "n", "c", " ", "T", "e", "s", "t", "A", "d", "d", "(", "t", " ", "*", "t",
          "e", "s", "t", "i", "n", "g", ".", "T", ")", " ", "{", " ", "}", NL >>,
       << BT, BT, BT, "g", "o", NL, "f", "u", "n", "c", " ", "T", "e", "s", "t", "M", "a", "i",
          "n", "(", "t", " ", "*", "t", "e", "s", "t", "i", "n", "g", ".", "T", ")", " ",
          "{", "}", NL, BT, BT, BT, NL >>,
       << " ", " ", " ", " ", " ", " ", " ", " ", " ", " ", " ", " ", " ", " ", " ", " ", " ",
          " ", " ", " ", " ", " ", " ", " ", " ", " ", " ", " ", " ", " ", " ", " ", " ",
          " ", " ", " ", " ", " ", " ", " ", " ", " ", " ", " ", " ", " ", " ", " ", " ",
          " ", " " >>,
       << "H", "e", "r", "e", " ", "i", "s", " ", "t", "h", "e", " ", "c", "o", "d", "e", " ",
          "y", "o", "u", " ", "a", "s", "k", "e", "d", " ", "f", "o", "r", ";", " ", "i",
          "t", " ", "a", "d", "d", "s", " ", "t", "w", "o", " ", "n", "u", "m", "b", "e",
          "r", "s", ".", NL >>,
       << "o", "k", NL >> >>

\* the responses: up to MaxParts pieces, one after the other
ResponseChoices == UNION { [ 1 .. k -> 1 .. Len(ResponseFragments) ] : k \in 0 .. MaxParts }
ResponseOf(choice) == Concat([ i \in 1 .. Len(choice) |-> ResponseFragments[choice[i]] ])

\* what Extract has not returned yet
NoReturn == [ main |-> << >>, test |-> << >>, strategy |-> "", err |-> FALSE ]

\* one call of ExtractWithFallback: i is the index of the strategy the loop of
\* Extract is at, tried the names of the strategies it has called, ret what
\* Extract returned, out what ExtractWithFallback returned
InitExtract ==
    /\ JobIdle
    /\ cls = ClsIdle
    /\ gc = GcIdle
    /\ \E choice \in ResponseChoices :
          ext = [ phase |-> "extract", choice |-> choice, response |-> ResponseOf(choice),
                  i |-> 1, tried |-> << >>, ret |-> NoReturn,
                  out |-> [ main |-> << >>, test |-> << >>, strategy |-> "" ] ]

\* Extract: one turn of the loop over e.strategies, and the return after it
TryStrategy ==
    /\ ext.phase = "extract"
    /\ LET name == NewExtractor[ext.i]
           r == StrategyExtract(name, ext.response)
       IN  ext' = IF r.ok
                  THEN [ ext EXCEPT !.phase = "returned",
                                    !.tried = Append(@, name),
                                    !.ret = [ main |-> r.main, test |-> r.test,
                                              strategy |-> name, err |-> FALSE ] ]
                  ELSE IF ext.i < Len(NewExtractor)
                  THEN [ ext EXCEPT !.i = @ + 1, !.tried = Append(@, name) ]
                  ELSE [ ext EXCEPT !.phase = "returned",
                                    !.tried = Append(@, name),
                                    !.ret = [ NoReturn EXCEPT !.err = TRUE ] ]
    /\ UNCHANGED << jobVars, cls, gc >>

\* ExtractWithFallback after Extract has returned
ExtractWithFallback ==
    /\ ext.phase = "returned"
    /\ ext' = [ ext EXCEPT !.phase = "done",
                           !.out = IF ~ext.ret.err
                                   THEN [ main |-> ext.ret.main, test |-> ext.ret.test,
                                          strategy |-> ext.ret.strategy ]
                                   ELSE Fallback(ext.response) ]
    /\ UNCHANGED << jobVars, cls, gc >>

NextExtract ==
    \/ TryStrategy
    \/ ExtractWithFallback

SpecExtract == InitExtract /\ [][NextExtract]_vars

\* ------------------------------------------------------------ properties
\* helpers of the properties
LastEvent == events[Len(events)]
LastCall == calls[Len(calls)]
Returning == pc \in { "deferred", "returned" }
CountKind(hist, kind) == Cardinality({ i \in 1 .. Len(hist) : hist[i] = kind })
TailSame(hist, n) ==
    /\ Len(hist) >= n
    /\ \A i \in (Len(hist) - n + 1) .. Len(hist) : hist[i] = hist[Len(hist)]
CallsOf(op, it) == { i \in 1 .. Len(calls) : calls[i].op = op /\ calls[i].iter = it }

\* C1: terminal states are absorbing: once Status is "completed" or "aborted",
\* no later step of the job changes Status, so an aborted job is still
\* "aborted" when RunCompilationJob has returned.
C1_TerminalAbsorbing ==
    [][(Status \in { "completed", "aborted" }) => (Status' = Status)]_vars

\* C2: no job terminates silently: when RunCompilationJob has returned without
\* a fault, it has emitted a completion event or an abort event carrying the
\* job's abort reason.
C2_NoSilentTermination ==
    (pc = "returned" /\ ~panicking) =>
        \E i \in 1 .. Len(events) :
            \/ events[i].type = "completion"
            \/ events[i].type = "abort" /\ events[i].reason = AbortReason

\* C3: stuck-loop guard: when the three most recent entries of the error
\* history are the same non-success kind, the job has been aborted with
\* same_error_threshold at that iteration, whatever kinds came before; when
\* iterations 1 to 3 produced the same kind, the abort is at iteration 3 and
\* nothing of iteration 4 is executed.
C3_StuckLoopGuard ==
    /\ (TailSame(ErrorHistory, SameErrorThreshold)
        /\ ErrorHistory[Len(ErrorHistory)] # ErrorTypeSuccess)
       => /\ Returning
          /\ AbortReason = "same_error_threshold"
          /\ LastEvent.type = "abort"
          /\ LastEvent.reason = "same_error_threshold"
          /\ LastEvent.iteration = Len(ErrorHistory)
          /\ LastCall.op = "compile" /\ LastCall.iter = Len(ErrorHistory)
    /\ \A k \in ErrorType \ { ErrorTypeSuccess } :
          (\A it \in 1 .. 3 :
              \E i \in CallsOf("compile", it) : calls[i].kind = k)
          => /\ AbortReason = "same_error_threshold"
             /\ LastEvent.type = "abort" /\ LastEvent.iteration = 3
             /\ IterationCount = 3 /\ iteration = 3
             /\ \A i \in 1 .. Len(calls) : calls[i].iter <= 3

\* C3 witness: a fourth iteration repeats the kind of iterations 2 and 3 after
\* a different kind at iteration 1, and the job is aborted as stuck.
C3_Witness ==
    /\ Len(ErrorHistory) = 4
    /\ ErrorHistory[1] # ErrorHistory[2]
    /\ TailSame(ErrorHistory, SameErrorThreshold)
    /\ AbortReason = "same_error_threshold"
    /\ pc = "returned"

\* C4 as claimed: whenever the compile result of iteration MaxIterations is
\* not successful, the job is aborted with max_iterations_reached and
\* FinalResult is that result, for every kind and every history.
C4_Original ==
    (result.iter > 0 /\ result.iter = MaxIterations /\ ~result.Success)
    => /\ AbortReason = "max_iterations_reached"
       /\ FinalResult = result

\* C4 amended: whenever the compile result of iteration MaxIterations is not
\* successful, its kind is not infrastructure and the stuck-loop guard does
\* not trip on the history ending with it, the job is aborted with
\* max_iterations_reached and FinalResult is that result.
C4_MaxIterationsReached ==
    (/\ result.iter > 0 /\ result.iter = MaxIterations /\ ~result.Success
     /\ result.ErrorType # ErrorTypeInfrastructure
     /\ ~(TailSame(ErrorHistory, SameErrorThreshold) /\ result.ErrorType # ErrorTypeSuccess))
    => /\ Returning
       /\ AbortReason = "max_iterations_reached"
       /\ FinalResult = result
       /\ LastEvent.type = "abort"
       /\ LastEvent.reason = "max_iterations_reached"
       /\ LastEvent.iteration = MaxIterations

\* C4 witness: the cap is hit at iteration 3 after two different kinds.
C4_Witness ==
    /\ MaxIterations = 3
    /\ result.iter = 3 /\ ~result.Success
    /\ Len(ErrorHistory) = 3 /\ ErrorHistory[1] # ErrorHistory[3]
    /\ AbortReason = "max_iterations_reached"
    /\ FinalResult = result
    /\ pc = "returned"

\* C5: the job is aborted with infrastructure_error_persistent only when an
\* infrastructure result recurs, that is when an earlier iteration of the job
\* produced an infrastructure result too.
C5_InfraOnlyOnRecurrence ==
    AbortReason = "infrastructure_error_persistent"
    => CountKind(ErrorHistory, ErrorTypeInfrastructure) >= 2

\* C6: an infrastructure result that is retried is followed by the next compile
\* attempt without a call to the model client in between.
C6_InfraRetryWithoutGeneration ==
    \A i \in 1 .. Len(calls) - 1 :
        (calls[i].op = "compile" /\ calls[i].kind = ErrorTypeInfrastructure)
        => calls[i + 1].op # "llm"

\* C7: the prompt built for the iteration after an infrastructure result has
\* no feedback section naming the infrastructure kind.
C7_InfraNotFedBack ==
    prompt.feedback # << >> => prompt.feedback[1].kind # ErrorTypeInfrastructure

\* C8: a fault inside the loop is not propagated and leaves the job in the
\* terminal state aborted with abort reason internal_panic.
C8_PanicAborts ==
    (pc = "returned" /\ panicking)
    => /\ Status = "aborted"
       /\ AbortReason = "internal_panic"

\* C9: a prompt larger than MaxPromptSize never reaches the model client: the
\* iteration that built it makes no model call and no compile call, and the
\* job is aborted with prompt_size_exceeded.
C9_PromptSizeGuard ==
    /\ prompt.size > MaxPromptSize
       => /\ Returning
          /\ pc = "deferred" => Status = "aborted"
          /\ AbortReason = "prompt_size_exceeded"
          /\ LastEvent.type = "abort"
          /\ LastEvent.reason = "prompt_size_exceeded"
          /\ LastEvent.iteration = IterationCount
          /\ \A i \in 1 .. Len(calls) : calls[i].iter < IterationCount
    /\ \A i \in 1 .. Len(PromptHistory) : PromptHistory[i].size <= MaxPromptSize
    /\ \A i \in 1 .. Len(PromptSizes) : PromptSizes[i] <= MaxPromptSize

\* C9 witness: the feedback section pushes the prompt of iteration 2 over the
\* limit after iteration 1 went through.
C9_Witness ==
    /\ prompt.size > MaxPromptSize
    /\ prompt.feedback # << >>
    /\ IterationCount = 2
    /\ CallsOf("llm", 1) # { }
    /\ AbortReason = "prompt_size_exceeded"

\* C10: a compile result with Success = true at iteration k is recorded as
\* FinalResult, the job ends with Status "completed" and a completion event
\* carrying the extracted main and test code and total iterations k, and no
\* model or compile call follows it.
C10_SuccessCompletes ==
    result.Success
    => /\ Returning
       /\ FinalResult = result
       /\ Status = "completed"
       /\ AbortReason = ""
       /\ LastEvent.type = "completion"
       /\ LastEvent.iteration = result.iter
       /\ LastEvent.main = << "main", result.iter >> /\ LastEvent.main = mainCode
       /\ LastEvent.test = testCode
       /\ LastCall.op = "compile" /\ LastCall.iter = result.iter
       /\ \A i \in 1 .. Len(events) - 1 : events[i].type = "iteration"

\* C10 witness: success at iteration 3 after two failed attempts, and success
\* on the first attempt is the same case with k = 1.
C10_Witness ==
    /\ result.Success
    /\ result.iter = 3
    /\ Len(ErrorHistory) = 2
    /\ pc = "returned"

\* C11: within one iteration the guards run in the order cancellation, budget,
\* prompt size, model-call error, empty response, empty extraction, compile
\* invocation error: a step of the controller aborts with the reason of the
\* earliest guard that trips and runs nothing that comes after it.
C11_GuardOrder ==
    [][(pc' # pc) =>
        /\ (pc = "loop" /\ iteration <= MaxIterations) =>
              /\ ctxDone
                 => /\ AbortReason' = "user_cancelled" /\ pc' = "deferred"
                    /\ calls' = calls /\ prompt' = prompt /\ PromptSizes' = PromptSizes
              /\ (~ctxDone /\ elapsed > Timeout)
                 => /\ AbortReason' = "total_timeout" /\ pc' = "deferred"
                    /\ calls' = calls /\ prompt' = prompt /\ PromptSizes' = PromptSizes
              /\ (~ctxDone /\ elapsed <= Timeout /\ prompt'.size > MaxPromptSize)
                 => /\ AbortReason' = "prompt_size_exceeded" /\ pc' = "deferred"
                    /\ calls' = calls /\ PromptSizes' = PromptSizes
              /\ pc' = "llm" => (~ctxDone /\ elapsed <= Timeout /\ prompt'.size <= MaxPromptSize)
        /\ (pc = "llm" /\ ~panicking') =>
              /\ calls'[Len(calls')].kind = "error"
                 => AbortReason' = "llm_error" /\ pc' = "deferred"
              /\ calls'[Len(calls')].kind = "empty"
                 => AbortReason' = "empty_llm_response" /\ pc' = "deferred"
              /\ Len(calls') = Len(calls) + 1 /\ calls'[Len(calls')].op = "llm"
        /\ (pc = "extract" /\ ~panicking') =>
              /\ mainCode' = NoCode
                 => AbortReason' = "extraction_failed" /\ pc' = "deferred"
              /\ Len(calls') = Len(calls) + 1 /\ calls'[Len(calls')].op = "extract"
        /\ (pc = "compile" /\ ~panicking') =>
              /\ calls'[Len(calls')].kind = "error"
                 => /\ AbortReason' = "compilation_failed" /\ pc' = "deferred"
                    /\ Len(events') = Len(events) + 1
              /\ Len(calls') = Len(calls) + 1 /\ calls'[Len(calls')].op = "compile"
    ]_vars

\* C11 witness: at the head of iteration 2 the job is cancelled, over budget
\* and its next prompt is too large, and it aborts as cancelled.
C11_Witness ==
    /\ pc = "returned"
    /\ AbortReason = "user_cancelled"
    /\ iteration = 2
    /\ ctxDone /\ elapsed > Timeout
    /\ buildPrompt(iteration).size > MaxPromptSize
    /\ CallsOf("llm", 2) = { }

\* C12: when the model call of iteration k returns an error, the job aborts
\* with llm_error, IterationCount is k, iteration k has no extraction and no
\* compile call, and the call is made once; the same with empty_llm_response
\* for an empty response.
C12_ModelCallFailure ==
    /\ (Len(calls) > 0 /\ LastCall.op = "llm" /\ LastCall.kind \in { "error", "empty" })
       => /\ Returning
          /\ AbortReason = (IF LastCall.kind = "error" THEN "llm_error"
                            ELSE "empty_llm_response")
          /\ IterationCount = LastCall.iter
          /\ LastEvent.type = "abort"
          /\ LastEvent.reason = AbortReason
          /\ LastEvent.iteration = LastCall.iter
          /\ CallsOf("extract", LastCall.iter) = { }
          /\ CallsOf("compile", LastCall.iter) = { }
          /\ Len(PromptHistory) = LastCall.iter - 1
    /\ \A k \in 1 .. MaxCap + 1 : Cardinality(CallsOf("llm", k)) <= 1
    /\ \A i \in 1 .. Len(calls) - 1 :
          ~(calls[i].op = "llm" /\ calls[i].kind \in { "error", "empty" })

\* C12 witness: the model call fails at iteration 3.
C12_Witness ==
    /\ Len(calls) > 0
    /\ LastCall.op = "llm" /\ LastCall.kind = "error" /\ LastCall.iter = 3
    /\ AbortReason = "llm_error"
    /\ pc = "returned"

\* C13: the budget is checked after the model call too: a response that
\* arrives when the elapsed time exceeds Timeout is not extracted or compiled.
C13_BudgetCheckedAfterModelCall ==
    pc = "extract" => elapsed <= Timeout

\* the categories, in the order of precedence, that a piece of output belongs
\* to: what matching the Go pattern lists by hand gives for OutputFragments
FragmentCategory ==
    << ErrorTypeGoInfrastructure, ErrorTypeGoInfrastructure, ErrorTypeGoSyntax,
       ErrorTypeGoType, ErrorTypeGoRuntime, "none", "none" >>
Precedence ==
    << ErrorTypeGoInfrastructure, ErrorTypeGoSyntax, ErrorTypeGoType, ErrorTypeGoRuntime >>
CategoriesIn(choice) == { FragmentCategory[choice[i]] : i \in 1 .. Len(choice) } \ { "none" }
FirstCategory(choice) ==
    Precedence[CHOOSE i \in 1 .. 4 :
                  /\ Precedence[i] \in CategoriesIn(choice)
                  /\ \A j \in 1 .. i - 1 : Precedence[j] \notin CategoriesIn(choice)]

\* C16: classifyGoError returns the kind of the first of the categories
\* infrastructure, syntax, type, runtime that has a pattern in the output,
\* whatever the case of the output's letters, whatever later categories match
\* and whatever the two diagnostic lists hold.
C16_ClassifyPrecedence ==
    (cls.phase = "done" /\ CategoriesIn(cls.choice) # { })
    => cls.kind = FirstCategory(cls.choice)

\* C16 witness: an output with a runtime pattern before an upper-case
\* infrastructure pattern, with test diagnostics, is classified infrastructure.
C16_Witness ==
    /\ cls.phase = "done"
    /\ cls.choice = << 5, 2 >>
    /\ cls.testErrors # << >>
    /\ cls.kind = ErrorTypeGoInfrastructure

\* C17: when no pattern of the four categories matches, classifyGoError
\* returns logic if the test diagnostics are non-empty, else type if the
\* compile diagnostics are non-empty, else unknown.
C17_ClassifyFallback ==
    (cls.phase = "done" /\ CategoriesIn(cls.choice) = { })
    => cls.kind = (IF cls.testErrors # << >> THEN ErrorTypeGoLogic
                   ELSE IF cls.compileErrors # << >> THEN ErrorTypeGoType
                   ELSE ErrorTypeGoUnknown)

\* C17 witness: no pattern matches and both lists are non-empty: logic.
C17_Witness ==
    /\ cls.phase = "done"
    /\ cls.choice = << 6, 7 >>
    /\ cls.testErrors # << >> /\ cls.compileErrors # << >>
    /\ cls.kind = ErrorTypeGoLogic

\* the calls of Compile that have returned a result
Returned == { c \in DOMAIN gc.call : gc.call[c].pc = "done" }

\* C14: when ctx becomes done while the child process is running, the result
\* Compile returns has Success = false, kind infrastructure and the timeout
\* message, whichever of the goroutine's completion and ctx.Done() the select
\* sees first.
C14_TimeoutInEveryInterleaving ==
    \A c \in Returned :
        gc.call[c].fired =>
            /\ ~gc.call[c].result.Success
            /\ gc.call[c].result.ErrorType = ErrorTypeGoInfrastructure
            /\ gc.call[c].result.RawOutput = CompilationTimeout

\* the calls of Compile that are under way
Running == { c \in DOMAIN gc.call : gc.call[c].pc \notin { "idle", "done", "panicked" } }

\* C15: of two calls of Compile that overlap in time, whatever the clock gave
\* them, neither has written to, read from or removed the working directory
\* of the other.
C15_DisjointWorkingDirectories ==
    \A c \in Running :
        \A d \in Running \ { c } :
            c \notin gc.touched[gc.call[d].tempDir]

\* C18: every result Compile returns carries one error kind, Success is true
\* exactly when the kind is success, and a result of kind success has no
\* compile errors and no test errors.
C18_OneKindPerResult ==
    \A c \in Returned :
        LET r == gc.call[c].result
        IN  /\ r.ErrorType \in ErrorTypeGo
            /\ r.Success <=> (r.ErrorType = ErrorTypeGoSuccess)
            /\ (r.ErrorType = ErrorTypeGoSuccess) =>
                   (r.CompileErrors = << >> /\ r.TestErrors = << >>)

\* a child that passes with a line of output a failed run would be diagnosed by
\* has made Compile return the success result
C18_Witness ==
    \E c \in Returned :
        /\ gc.call[c].result.Success
        /\ gc.call[c].proc = "exited"
        /\ parseGoErrors(gc.call[c].result.RawOutput)[2] # << >>

\* the order of the strategies
StrategyOrder ==
    << "standard_format", "language_tag_split", "test_marker_split", "package_main_split",
       "single_file_fallback" >>

\* C19: Extract calls the strategies in the order standard_format,
\* language_tag_split, test_marker_split, package_main_split,
\* single_file_fallback and returns the code and the name of the first that
\* succeeds: every strategy before the one returned failed on the same text.
C19_FirstSuccessWins ==
    (ext.phase \in { "returned", "done" }) =>
        /\ ext.tried = SubSeq(StrategyOrder, 1, Len(ext.tried))
        /\ \A j \in 1 .. (Len(ext.tried) - 1) :
              ~StrategyExtract(StrategyOrder[j], ext.response).ok
        /\ ~ext.ret.err =>
              /\ ext.ret.strategy = StrategyOrder[Len(ext.tried)]
              /\ StrategyExtract(ext.ret.strategy, ext.response) =
                     Extracted(ext.ret.main, ext.ret.test)
        /\ ext.ret.err =>
              \A j \in 1 .. Len(StrategyOrder) :
                  ~StrategyExtract(StrategyOrder[j], ext.response).ok

\* Extract has returned the code of the fourth strategy, on a text the third
\* would have split had it come later
C19_Witness ==
    /\ ext.phase = "returned"
    /\ ext.ret.strategy = "package_main_split"
    /\ Len(ext.tried) = 4
    /\ ext.ret.main # << >>

\* C20: on a text with no fenced block and more than 50 characters
\* ExtractWithFallback returns the name single_file_fallback or raw_response
\* and a main code that is not empty.
C20_NoFenceFallback ==
    (ext.phase = "done" /\ ~Contains(ext.response, Fence) /\ Len(ext.response) > 50) =>
        /\ ext.out.strategy \in { "single_file_fallback", "raw_response" }
        /\ ext.out.main # << >>

\* the pieces of model response that are a fenced block with a body: an
\* opening fence with a language tag or none, lines of code, a closing fence
WellFormedBlocks == { 1, 2, 4, 5, 8 }

\* the code between the fences of such a piece, trimmed
FencedBody(piece) ==
    TrimSpace(SubSeq(piece, Index(piece, << NL >>) + 2, Len(piece) - Len(Fence) - 1))

\* C21: on a text made of two or more well-formed fenced blocks, whatever
\* their language tags, Extract returns the name standard_format with the
\* first block as main and the second as test.
C21_TwoBlocksStandardFormat ==
    (/\ ext.phase \in { "returned", "done" }
     /\ Len(ext.choice) >= 2
     /\ \A k \in 1 .. Len(ext.choice) : ext.choice[k] \in WellFormedBlocks) =>
        /\ ~ext.ret.err
        /\ ext.ret.strategy = "standard_format"
        /\ ext.ret.main = FencedBody(ResponseFragments[ext.choice[1]])
        /\ ext.ret.test = FencedBody(ResponseFragments[ext.choice[2]])

\* C22: when ExtractWithFallback returns an empty main code the job aborts
\* with extraction_failed in that iteration and makes no compile call; when it
\* returns a main code that is not empty the job goes on to the compile call.
C22_EmptyMainAborts ==
    /\ (Len(calls) > 0 /\ LastCall.op = "extract" /\ LastCall.kind = "empty")
       => /\ Returning
          /\ AbortReason = "extraction_failed"
          /\ LastEvent.type = "abort"
          /\ LastEvent.reason = "extraction_failed"
          /\ LastEvent.iteration = LastCall.iter
          /\ CallsOf("compile", LastCall.iter) = { }
    /\ (Len(calls) > 0 /\ LastCall.op = "extract" /\ LastCall.kind = "code")
       => /\ pc = "compile" \/ panicking
          /\ AbortReason # "extraction_failed"
          /\ mainCode # NoCode
    /\ \A i \in 1 .. Len(calls) - 1 :
          calls[i].op = "extract" =>
              /\ calls[i].kind = "code"
              /\ calls[i + 1].op = "compile"
              /\ calls[i + 1].iter = calls[i].iter

\* C22 witness: at iteration 2 the extraction gives a test code and no main
\* code, and the job has aborted with extraction_failed.
C22_Witness ==
    /\ Len(calls) > 0
    /\ LastCall.op = "extract" /\ LastCall.kind = "empty" /\ LastCall.iter = 2
    /\ mainCode = NoCode /\ testCode # NoCode
    /\ AbortReason = "extraction_failed"
    /\ pc = "returned"

CallSeq(op) ==
    LET IsOp(c) == c.op = op
    IN  SelectSeq(calls, IsOp)

\* C24: the search is bounded: when every call returns, the job returns; it
\* has made at most MaxIterations model calls and at most MaxIterations compile
\* calls, and the calls carry the iteration indices 1, 2, 3, ... with none
\* skipped and none repeated.
C24_BoundedSearch ==
    /\ [](/\ Len(CallSeq("llm")) <= MaxIterations
          /\ Len(CallSeq("compile")) <= MaxIterations
          /\ \A j \in 1 .. Len(CallSeq("llm")) : CallSeq("llm")[j].iter = j
          /\ \A j \in 1 .. Len(CallSeq("compile")) : CallSeq("compile")[j].iter = j
          /\ IterationCount <= MaxIterations
          /\ IterationCount \in { iteration, iteration - 1 })
    /\ <>(pc = "returned")

\* C24 witness: a job with the largest cap has returned after a model call and
\* a compile call in every iteration.
C24_Witness ==
    /\ pc = "returned"
    /\ MaxIterations = MaxCap
    /\ Len(CallSeq("llm")) = MaxCap
    /\ Len(CallSeq("compile")) = MaxCap
    /\ AbortReason = "max_iterations_reached"

\* the positions of the terminal events, completion or abort, in the log
TerminalEvents == { i \in 1 .. Len(events) : events[i].type \in { "completion", "abort" } }

\* C25: the iteration events of a job carry strictly increasing iteration
\* indices, at most one terminal event (completion or abort) is emitted, and
\* no event is emitted after it.
C25_EventsInOrder ==
    /\ [](/\ \A i, j \in 1 .. Len(events) :
                (i < j /\ events[i].type = "iteration" /\ events[j].type = "iteration")
                    => events[i].iteration < events[j].iteration
          /\ Cardinality(TerminalEvents) <= 1
          /\ \A i \in TerminalEvents : i = Len(events))
    /\ [][/\ Len(events') >= Len(events)
          /\ SubSeq(events', 1, Len(events)) = events
          /\ (TerminalEvents # { }) => (events' = events)]_vars

\* C25 witness: three iteration events and then the abort event, the last
\* event of a job that has returned.
C25_Witness ==
    /\ pc = "returned"
    /\ Len(events) = 4
    /\ \A i \in 1 .. 3 : events[i].type = "iteration" /\ events[i].iteration = i
    /\ events[4].type = "abort"

\* the last three kinds of the error history are the same error kind
StuckCondition ==
    /\ TailSame(ErrorHistory, SameErrorThreshold)
    /\ ErrorHistory[Len(ErrorHistory)] # ErrorTypeSuccess

\* C26: when at the iteration whose index is MaxIterations the last three
\* error kinds are identical, the job is aborted with same_error_threshold;
\* max_iterations_reached is reported only when the stuck-loop guard does not
\* trip.
C26_StuckBeforeCap ==
    /\ (StuckCondition /\ Len(ErrorHistory) = MaxIterations)
       => /\ Returning
          /\ AbortReason = "same_error_threshold"
          /\ LastEvent.type = "abort"
          /\ LastEvent.reason = "same_error_threshold"
          /\ LastEvent.iteration = MaxIterations
    /\ (AbortReason = "max_iterations_reached")
       => /\ ~StuckCondition
          /\ Len(ErrorHistory) = MaxIterations

\* C26 witness: with a cap of 3 the third iteration repeats the kind of the
\* first two, and the job is aborted as stuck.
C26_Witness ==
    /\ MaxIterations = 3
    /\ Len(ErrorHistory) = 3
    /\ StuckCondition
    /\ result.iter = 3
    /\ AbortReason = "same_error_threshold"
    /\ pc = "returned"

\* C27: the diagnostic message in the feedback section of a prompt is at most
\* 500 characters long, however long the message of the previous iteration.
C27_FeedbackMessageBudget ==
    /\ (prompt.feedback # << >>) => (prompt.feedback[1].msgLen <= 500)
    /\ \A k \in 1 .. Len(PromptHistory) :
          (PromptHistory[k].feedback # << >>) => (PromptHistory[k].feedback[1].msgLen <= 500)

\* the length of the run of identical kinds at the end of a history
TrailingRun(hist) ==
    Cardinality({ n \in 1 .. Len(hist) :
                     \A i \in (Len(hist) - n + 1) .. Len(hist) : hist[i] = hist[Len(hist)] })

\* C28: after every iteration that was not successful, SameErrorCount is the
\* number of consecutive identical error kinds at the end of ErrorHistory, the
\* run that ends with LastErrorType.
C28_SameErrorCountTracksRun ==
    (Len(ErrorHistory) > 0) =>
        /\ LastErrorType = ErrorHistory[Len(ErrorHistory)]
        /\ SameErrorCount = TrailingRun(ErrorHistory)

\* the number of times the keyword package main occurs in a text
Occurrences(s) ==
    Cardinality({ i \in 0 .. (Len(s) - Len(PackageMain)) : HasAt(s, PackageMain, i) })

\* Extract has called the declaration split, and it succeeded
PackageMainTried == \E k \in 1 .. Len(ext.tried) : ext.tried[k] = "package_main_split"
PackageMainSucceeded == ~ext.ret.err /\ ext.ret.strategy = "package_main_split"

\* C29 as claimed: the declaration split succeeds only if package main occurs
\* at least two times beyond its first occurrence, three times in all; with
\* fewer occurrences it rejects.
C29_Original ==
    (ext.phase \in { "returned", "done" } /\ PackageMainTried) =>
        (PackageMainSucceeded => Occurrences(ext.response) >= 3)

\* C29 amended: the declaration split succeeds only if package main occurs at
\* least two times in the text, once beyond its first occurrence; with fewer
\* occurrences it rejects.
C29_TwoDeclarations ==
    (ext.phase \in { "returned", "done" } /\ PackageMainTried) =>
        /\ PackageMainSucceeded => Occurrences(ext.response) >= 2
        /\ (Occurrences(ext.response) < 2) =>
               (ext.ret.err \/ ext.ret.strategy = "single_file_fallback")

\* C29 witness: the declaration split has succeeded on a text with exactly two
\* occurrences of package main.
C29_Witness ==
    /\ ext.phase = "returned"
    /\ PackageMainSucceeded
    /\ Occurrences(ext.response) = 2

CtxDoneBranchTaken(c) ==
    /\ gc.call[c].pc = "select"
    /\ gc'.call[c].pc = "cleanup"
    /\ gc'.call[c].doneChan = gc.call[c].doneChan

\* C31: whenever Compile takes the ctx.Done() case of the select, the
\* goroutine has already started the child process, so that Kill acts on a
\* started process; in every interleaving, ctx done on entry included.
C31_KillOnStartedProcess ==
    [][\A c \in DOMAIN gc.call :
           CtxDoneBranchTaken(c) => gc.call[c].proc # "nil"]_vars

\* the step emits an iteration event: sendIterationMessage runs
SendsIterationMessage ==
    /\ Len(events') > Len(events)
    /\ events'[Len(events) + 1].type = "iteration"

\* the job is between two iterations or past the last one, and the iteration
\* counted last made a model call
IterationEnded ==
    /\ pc \in { "loop", "deferred", "returned" }
    /\ CallsOf("llm", IterationCount) # { }

====
